---- MODULE Spec2Model ----
(***************************************************************************)
(* A model of the imagor URL builder (src/src/imagor-url-builder.ts) and   *)
(* of the factory that hands out builders (src/src/client.ts).             *)
(*                                                                         *)
(* Strings are TLA+ strings; the path is built by real concatenation, so   *)
(* joining, the filters block and the memo key are computed as the code    *)
(* computes them.  The HMAC of digest() is a symbolic term over (key,      *)
(* message), passed through the code's URL-safe character replacement.     *)
(* The runtime is the Node.js one, where `import('crypto')` succeeds.      *)
(***************************************************************************)
EXTENDS Integers, Sequences, FiniteSets, TLC

(***************************************************************************)
(* Bounds of the model.                                                    *)
(***************************************************************************)
\* Spec: most segments plus filters accumulated at one time, and most
\* getUrl() invocations in one behaviour (which ends with the last of them).
MaxChain == 2
MaxGetUrl == 2
\* SpecBuild (one request, every positional mutator): most segments plus
\* filters accumulated for the request.
MaxChainBuild == 3
\* The clock (Date.now()) runs from 0 to MaxNow.
MaxNow == 1
\* SpecFilters (one request, the filter methods): most segments plus
\* directives handed to the builder before a call.
MaxChainFilters == 5
\* SpecClient: most imagorClient() calls and most clearImagorClientInstances()
\* calls in one behaviour.
MaxClientCalls == 4
MaxClears == 2
\* SpecDefaults (a builder given defaultFilters): most getUrl() calls in
\* one behaviour.
MaxGetUrlDefaults == 3
\* SpecFrames (every positional method, two requests): most changes made
\* to the segments and the filter set in one behaviour.
MaxChanges == 3

VARIABLES
    imagorServer,     \* this.imagorServer
    imagorServerKey,  \* this.imagorServerKey
    cacheTtl,         \* this.cacheTtl
    parts,            \* this.parts: sequence of [order, value], each with
                      \* the name of the method that pushed it (`by`)
    filters,          \* this.filters: a Set<string>, kept in insertion order
    added,            \* every directive a filter method handed to
                      \* this.filters.add since the construction or the last
                      \* reset, in call order
    memoCache,        \* this.memoCache: cache key -> promise of generateUrl()
    now,              \* Date.now()
    viaClient,        \* TRUE iff the builder was handed out by imagorClient()
    calls,            \* one record per getUrl() invocation, in call order
    clean,            \* TRUE iff getUrl() reset the state and nothing was
                      \* accumulated since
    version,          \* number of changes made to (parts, filters) so far
    owners,           \* which request made what: for each element of parts
                      \* and of added the number of the request whose call
                      \* put it there (0: the construction), and the number
                      \* of elements put since the last getUrl() invocation
    defaults,         \* the directives the constructor was given as
                      \* defaultFilters, as the Set made of them lists them
    given,            \* the latest filter call since the construction or
                      \* the last reset, as the caller wrote it: the method
                      \* and its arguments
    limits,           \* the bounds in force: [chain, calls, changes]
    builderInstances, \* client.ts: instance key -> identity of the builder
    clientCalls,      \* one record per imagorClient() invocation, in call order
    epoch             \* number of clearImagorClientInstances() calls so far

vars == <<imagorServer, imagorServerKey, cacheTtl, parts, filters, added,
          memoCache, now, viaClient, calls, clean, version, owners, given,
          defaults, limits,
          builderInstances, clientCalls, epoch>>

\* The state of the factory of client.ts.
factory == <<builderInstances, clientCalls, epoch>>

config == <<imagorServer, imagorServerKey, cacheTtl, viaClient, defaults,
           limits, factory>>

(***************************************************************************)
(* String helpers (String.prototype.startsWith, Array.prototype.join,      *)
(* String.prototype.replace with a global one-character pattern).          *)
(***************************************************************************)
startsWith(s, prefix) ==
    /\ Len(s) >= Len(prefix)
    /\ SubSeq(s, 1, Len(prefix)) = prefix

RECURSIVE join(_, _)
join(seq, sep) ==
    IF seq = <<>> THEN ""
    ELSE IF Len(seq) = 1 THEN seq[1]
    ELSE seq[1] \o sep \o join(Tail(seq), sep)

RECURSIVE replaceAll(_, _, _)
replaceAll(s, from, to) ==
    IF Len(s) = 0 THEN ""
    ELSE (IF SubSeq(s, 1, 1) = from THEN to ELSE SubSeq(s, 1, 1))
            \o replaceAll(SubSeq(s, 2, Len(s)), from, to)

(***************************************************************************)
(* The Methods enum of '~/methods' (its file is not among the sources):    *)
(* the path tokens of the imagor URL grammar.                              *)
(***************************************************************************)
Methods ==
    [UNSAFE |-> "unsafe", META |-> "meta", FIT_IN |-> "fit-in",
     FULL_FIT_IN |-> "full-fit-in", FIT |-> "fit", FULL |-> "full",
     STRETCH |-> "stretch", ADAPTIVE |-> "adaptive",
     DIMENSIONS |-> "dimensions", PADDING |-> "padding", SMART |-> "smart",
     FILTERS |-> "filters", IMAGE |-> "image"]

METHODS_ORDER ==
    << Methods.UNSAFE, Methods.META, Methods.FIT_IN, Methods.FULL_FIT_IN,
       Methods.FIT, Methods.FULL, Methods.STRETCH, Methods.ADAPTIVE,
       Methods.DIMENSIONS, Methods.PADDING, Methods.SMART, Methods.FILTERS,
       Methods.IMAGE >>

\* The rank orderLookup() answers for a method that is not in the map, and
\* the default of src()'s order parameter.
DefaultOrder == 99

\* An orderLookup() that finds no method in the map.
orderLookup_mutMissing(method) == DefaultOrder

\* methodsOrderMap.get(method) ?? 99 (the map holds each method's 0-based index)
orderLookup(method) ==
    IF \E i \in 1..Len(METHODS_ORDER) : METHODS_ORDER[i] = method
    THEN (CHOOSE i \in 1..Len(METHODS_ORDER) : METHODS_ORDER[i] = method) - 1
    ELSE DefaultOrder

(***************************************************************************)
(* URL compilation: generateUrl(), sign(), digest().                       *)
(***************************************************************************)
MissingKeyError ==
    "Signing key is missing for ImagorUrlBuilder. Either set the key in the constructor or use the unsafe() method."

\* this.parts.some((part) => part.value === Methods.UNSAFE)
hasUnsafe(ps) == \E i \in 1..Len(ps) : ps[i].value = Methods.UNSAFE

\* A filtersArray that appends both defaults whatever the set holds.
filtersArray_mutAlwaysDefaults(fs, ttl, t) ==
    LET a2 == Append(Append(fs, "format(jpeg)"), "quality(70)")
    IN  IF ttl > 0
        THEN Append(a2, "expire(" \o ToString(t + ttl) \o ")")
        ELSE a2

\* A filtersArray that looks for the quality default first.
filtersArray_mutQualityFirst(fs, ttl, t) ==
    LET a1 == IF \E i \in 1..Len(fs) : startsWith(fs[i], "quality(")
              THEN fs ELSE Append(fs, "quality(70)")
        a2 == IF \E i \in 1..Len(a1) : startsWith(a1[i], "format(")
              THEN a1 ELSE Append(a1, "format(jpeg)")
    IN  IF ttl > 0
        THEN Append(a2, "expire(" \o ToString(t + ttl) \o ")")
        ELSE a2

\* A filtersArray without the defaults: the filter set, then the expire
\* directive for a positive TTL.
filtersArray_mutNoDefaults(fs, ttl, t) ==
    IF ttl > 0
    THEN Append(fs, "expire(" \o ToString(t + ttl) \o ")")
    ELSE fs

\* Lines 652-661: the filter set, then the defaults that are missing, then
\* the expire directive (Date.now() + this.cacheTtl) for a positive TTL.
filtersArray(fs, ttl, t) ==
    LET a0 == fs
        a1 == IF \E i \in 1..Len(a0) : startsWith(a0[i], "format(")
              THEN a0 ELSE Append(a0, "format(jpeg)")
        a2 == IF \E i \in 1..Len(a1) : startsWith(a1[i], "quality(")
              THEN a1 ELSE Append(a1, "quality(70)")
    IN  IF ttl > 0
        THEN Append(a2, "expire(" \o ToString(t + ttl) \o ")")
        ELSE a2

\* filtersArray.length ? `filters:${filtersArray.join(':')}` : ''
filtersBlock(fa) ==
    IF Len(fa) > 0 THEN "filters:" \o join(fa, ":") ELSE ""

\* The merged list with the empty values left in.
partsWithFilters_mutKeepsEmpty(ps, fa) ==
    Append(ps, [order |-> orderLookup(Methods.FILTERS),
                value |-> filtersBlock(fa)])

\* [...this.parts, {order: FILTERS, value: filters}].filter(value !== '')
partsWithFilters(ps, fa) ==
    SelectSeq(Append(ps, [order |-> orderLookup(Methods.FILTERS),
                          value |-> filtersBlock(fa)]),
              LAMBDA part : part.value # "")

\* An insertion that puts a part before the parts of its own order.
RECURSIVE insertByOrder_mutBeforeEquals(_, _)
insertByOrder_mutBeforeEquals(sorted, part) ==
    IF sorted = <<>> THEN <<part>>
    ELSE IF sorted[Len(sorted)].order < part.order THEN Append(sorted, part)
    ELSE Append(insertByOrder_mutBeforeEquals(
                    SubSeq(sorted, 1, Len(sorted) - 1), part),
                sorted[Len(sorted)])

\* Array.prototype.sort((a, b) => a.order - b.order): a stable sort.
RECURSIVE insertByOrder(_, _)
insertByOrder(sorted, part) ==
    IF sorted = <<>> THEN <<part>>
    ELSE IF sorted[Len(sorted)].order <= part.order THEN Append(sorted, part)
    ELSE Append(insertByOrder(SubSeq(sorted, 1, Len(sorted) - 1), part),
                sorted[Len(sorted)])

\* No sort: the segments stay in call order.
sortByOrder_mutCallOrder(ps) == ps

RECURSIVE sortByOrder(_)
sortByOrder(ps) ==
    IF ps = <<>> THEN <<>>
    ELSE insertByOrder(sortByOrder(SubSeq(ps, 1, Len(ps) - 1)), ps[Len(ps)])

\* Lines 671-674: sort, map to the values, join with '/'.
urlPath(ps, fs, ttl, t) ==
    LET sorted == sortByOrder(partsWithFilters(ps, filtersArray(fs, ttl, t)))
    IN  join([i \in 1..Len(sorted) |-> sorted[i].value], "/")

\* createHmac('sha1', key).update(message).digest('base64'): a symbolic term.
hmacSha1Base64(message, key) == "hmac<" \o key \o ">(" \o message \o ")"

\* digest(): the base64 HMAC with '+' -> '-' and '/' -> '_'.
digest(message, key) ==
    replaceAll(replaceAll(hmacSha1Base64(message, key), "+", "-"), "/", "_")

\* sign() hashing under the empty key instead of the secret.
sign_mutEmptyKey(path, secret) == digest(path, "") \o "/" \o path

\* sign(): hash + '/' + path
sign(path, secret) == digest(path, secret) \o "/" \o path

\* generateUrl() without the signing precondition of lines 645-650.
generateUrl_mutNoPrecondition(ps, fs, server, key, ttl, t) ==
    [status |-> "pending",
     value  |-> server \o "/" \o digest(urlPath(ps, fs, ttl, t), key)
                       \o "/" \o urlPath(ps, fs, ttl, t),
     at     |-> t]

\* generateUrl() whose precondition asks for the key alone.
generateUrl_mutIgnoresUnsafe(ps, fs, server, key, ttl, t) ==
    IF key = ""
    THEN [status |-> "rejected", value |-> MissingKeyError, at |-> t]
    ELSE [status |-> "pending",
          value  |-> server \o "/" \o sign(urlPath(ps, fs, ttl, t), key),
          at     |-> t]

\* generateUrl(): the promise it returns.  The precondition failure rejects
\* it at once; otherwise the URL is computed from the state and the clock
\* read at the call, and the promise stays pending until digest() answers.
generateUrl(ps, fs, server, key, ttl, t) ==
    IF ~hasUnsafe(ps) /\ key = ""
    THEN [status |-> "rejected", value |-> MissingKeyError, at |-> t]
    ELSE [status |-> "pending",
          value  |-> server \o "/" \o sign(urlPath(ps, fs, ttl, t), key),
          at     |-> t]

\* JSON.stringify({src: this.src, parts, filters}): `src` is a function and
\* is left out by JSON.stringify.
jsonPart(part) ==
    "{\"order\":" \o ToString(part.order) \o ",\"value\":\"" \o part.value \o "\"}"

cacheKey(ps, fs) ==
    "{\"parts\":[" \o join([i \in 1..Len(ps) |-> jsonPart(ps[i])], ",")
        \o "],\"filters\":["
        \o join([i \in 1..Len(fs) |-> "\"" \o fs[i] \o "\""], ",") \o "]}"

(***************************************************************************)
(* Construction: the constructor and the imagorClient() factory.           *)
(***************************************************************************)
\* new Set(iterable): the elements in first-insertion order, once each.
RECURSIVE newSet(_)
newSet(seq) ==
    IF seq = <<>> THEN <<>>
    ELSE LET rest == newSet(SubSeq(seq, 1, Len(seq) - 1))
             x    == seq[Len(seq)]
         IN  IF \E i \in 1..Len(rest) : rest[i] = x THEN rest ELSE Append(rest, x)

\* An add that does not look for the element.
setAdd_mutNoLookup(set, x) == Append(set, x)

\* Set.prototype.add
setAdd(set, x) ==
    IF \E i \in 1..Len(set) : set[i] = x THEN set ELSE Append(set, x)

\* One element of this.parts.
part(order, value, by) == [order |-> order, value |-> value, by |-> by]

\* A property that is missing from the argument object (JavaScript's
\* undefined); no input string has this value.
undefined == "<undefined>"

MissingServerError == "Missing API URL for ImagorUrlBuilder"

\* A constructor that takes any server, a missing or empty one included.
constructor_mutNoServerCheck(server, key, defaultFilters, ttl) ==
    [ok |-> TRUE,
     imagorServer |-> server, imagorServerKey |-> key, cacheTtl |-> ttl,
     parts |-> <<>>, filters |-> newSet(defaultFilters)]

\* constructor({imagorServer, imagorServerKey = '', defaultFilters = [],
\* cacheTtl = 0}); `ok` is FALSE when it throws 'Missing API URL ...'
\* (!imagorServer: the server is missing or empty).
constructor(server, key, defaultFilters, ttl) ==
    [ok |-> server \notin {"", undefined},
     imagorServer |-> server, imagorServerKey |-> key, cacheTtl |-> ttl,
     parts |-> <<>>, filters |-> newSet(defaultFilters)]

\* imagorClient(): a builder with cacheTtl 0 and no default filters, on
\* which unsafe() is called once when no key is given.
imagorClient(server, key) ==
    LET builder == constructor(server, key, <<>>, 0)
    IN  IF key = ""
        THEN [builder EXCEPT !.parts =
                 Append(@, part(orderLookup(Methods.UNSAFE), Methods.UNSAFE,
                                "unsafe"))]
        ELSE builder

\* The destructuring default of line 49: imagorServerKey = ''
keyOrDefault(key) == IF key = undefined THEN "" ELSE key

\* JSON.stringify of a string without escaping.
jsonString_mutNoEscape(str) == "\"" \o str \o "\""

\* JSON.stringify of a string: quoted, with '"' and '\' escaped.
RECURSIVE jsonEscape(_)
jsonEscape(str) ==
    IF Len(str) = 0 THEN ""
    ELSE LET ch == SubSeq(str, 1, 1)
         IN  (IF ch = "\"" THEN "\\\""
              ELSE IF ch = "\\" THEN "\\\\"
              ELSE ch) \o jsonEscape(SubSeq(str, 2, Len(str)))

jsonString(str) == "\"" \o jsonEscape(str) \o "\""

\* JSON.stringify({imagorServer, imagorServerKey}): a property whose value
\* is undefined is left out.
instanceKey(server, key) ==
    LET prop(name, v) == "\"" \o name \o "\":" \o jsonString(v)
        props == (IF server = undefined THEN <<>>
                  ELSE <<prop("imagorServer", server)>>)
                 \o (IF key = undefined THEN <<>>
                     ELSE <<prop("imagorServerKey", key)>>)
    IN  "{" \o join(props, ",") \o "}"

\* The record of one imagorClient() invocation: its arguments, the promise
\* it returned (the identity of a builder, or the error), whether it made
\* the builder, whether unsafe() was called on it, and the number of
\* clearImagorClientInstances() calls made before it.
clientCallRecord(server, key, status, value, created) ==
    [server |-> server, key |-> key, status |-> status, value |-> value,
     created |-> created, unsafe |-> created /\ keyOrDefault(key) = "",
     epoch |-> epoch]

(***************************************************************************)
(* Inputs.                                                                 *)
(***************************************************************************)
Servers == {"https://img.example.com"}
Keys == {"", "k"}
CacheTtls == {0, 1}
DefaultFilterLists == {<<>>, <<"quality(80)">>}
Sources == {"a.jpg"}
SourceOrders == {0, 8}
Formats == {"webp", "jpeg"}
Qualities == {80}
RawFilters == {"grayscale()"}
\* A `number | 'orig'` argument: <<"number", n>> or <<"orig", 0>>.
DimensionArgs == {<< <<"number", 300>>, <<"number", 200>> >>,
                  << <<"orig", 0>>, <<"number", 200>> >>}
Widths == {<<"number", 300>>}
Heights == {<<"number", 200>>}
Percentages == {50}
PaddingArgs == {<< [x |-> 10, y |-> 20] >>,
                << [x |-> 10, y |-> 20], [x |-> 30, y |-> 40] >>}
\* blur(radius, sigma?): sigma is <<"number", n>> or <<"undefined", 0>>.
BlurArgs == {<< 5, <<"undefined", 0>> >>, << 10, <<"undefined", 0>> >>,
             << 5, <<"number", 2>> >>, << 5, <<"number", 0>> >>}
\* An optional argument is <<"undefined", 0>>, <<"number", n>> or
\* <<"string", s>>.  The calls below leave out trailing arguments only.
\* trim(tolerance?, basedOn?)
TrimArgs == {<< <<"undefined", 0>>, <<"undefined", 0>> >>,
             << <<"number", 0>>, <<"undefined", 0>> >>,
             << <<"number", 50>>, <<"undefined", 0>> >>,
             << <<"number", 0>>, <<"string", "top-left">> >>,
             << <<"number", 50>>, <<"string", "bottom-right">> >>}
\* label(text, x, y, size, color, alpha?, font?): alpha and font
LabelArgs == {<< <<"undefined", 0>>, <<"undefined", 0>> >>,
              << <<"number", 0>>, <<"undefined", 0>> >>,
              << <<"number", 5>>, <<"undefined", 0>> >>,
              << <<"number", 0>>, <<"string", "s">> >>,
              << <<"number", 5>>, <<"string", "s">> >>}
\* roundCorner(radiusX, radiusY?, color?): radiusY and color
RoundCornerArgs == {<< <<"undefined", 0>>, <<"undefined", 0>> >>,
                    << <<"number", 0>>, <<"undefined", 0>> >>,
                    << <<"number", 20>>, <<"undefined", 0>> >>,
                    << <<"number", 0>>, <<"string", "fff">> >>,
                    << <<"number", 20>>, <<"string", "fff">> >>}
\* watermark(url, x, y, alpha, wRatio?, hRatio?): wRatio and hRatio
WatermarkArgs == {<< <<"undefined", 0>>, <<"undefined", 0>> >>,
                  << <<"number", 0>>, <<"undefined", 0>> >>,
                  << <<"number", 3>>, <<"undefined", 0>> >>,
                  << <<"number", 3>>, <<"number", 0>> >>,
                  << <<"number", 3>>, <<"number", 4>> >>}
\* Sources, the empty string among them.
SourcesOrEmpty == Sources \cup {""}
\* Texts a caller can hand to src() and filter(), the text of the unsafe
\* marker among them.
SourceTexts == {"a.jpg", Methods.UNSAFE}
FilterTexts == {"grayscale()", Methods.UNSAFE}
\* Arguments of imagorClient(): a missing or empty server, and a server whose
\* text holds a quoted property.
ClientServers == {undefined, "", "https://a.io",
                  "https://a.io\",\"imagorServerKey\":\"k"}
ClientKeys == {undefined, "", "k"}

\* The bounds on the calls accumulated for a request and on the requests;
\* the number of changes these allow is below the third bound.
limitsOf(maxChain, maxCalls) ==
    [chain |-> maxChain, calls |-> maxCalls,
     changes |-> (maxChain + 1) * (maxCalls + 1)]

\* No filter call was made since the construction or the last reset.
noCall == [method |-> "", required |-> <<>>, optional |-> <<>>]

\* One filter call as the caller wrote it: the arguments the signature
\* requires, then the optional ones, each given or left undefined.
callOf(method, required, optional) ==
    [method |-> method, required |-> required, optional |-> optional]

InitWith(builder, client) ==
    /\ builder.ok
    /\ imagorServer = builder.imagorServer
    /\ imagorServerKey = builder.imagorServerKey
    /\ cacheTtl = builder.cacheTtl
    /\ parts = builder.parts
    /\ filters = builder.filters
    /\ added = <<>>
    /\ memoCache = [k \in {} |-> 0]
    /\ now = 0
    /\ viaClient = client
    /\ calls = <<>>
    /\ clean = FALSE
    /\ version = 0
    /\ owners = [parts |-> [k \in 1..Len(builder.parts) |-> 0],
                 added |-> <<>>, made |-> 0]
    /\ given = noCall
    /\ defaults = builder.filters

\* The factory before its first call: const builderInstances = new Map()
InitFactory ==
    /\ builderInstances = [k \in {} |-> 0]
    /\ clientCalls = <<>>
    /\ epoch = 0

\* The factory after the one imagorClient() call that handed out the builder.
InitFactoryWith(server, key) ==
    /\ epoch = 0
    /\ builderInstances = (instanceKey(server, key) :> 1)
    /\ clientCalls = <<clientCallRecord(server, key, "fulfilled", 1, TRUE)>>

\* A builder made by the constructor or handed out by imagorClient().
Init ==
    /\ limits = limitsOf(MaxChain, MaxGetUrl)
    /\ \E server \in Servers, key \in Keys :
          \/ /\ \E df \in DefaultFilterLists, ttl \in CacheTtls :
                    InitWith(constructor(server, key, df, ttl), FALSE)
             /\ InitFactory
          \/ /\ InitWith(imagorClient(server, key), TRUE)
             /\ InitFactoryWith(server, key)

\* A builder made by the constructor, for one request.
InitBuild ==
    /\ limits = limitsOf(MaxChainBuild, 1)
    /\ \E server \in Servers, key \in Keys, ttl \in CacheTtls :
          InitWith(constructor(server, key, <<>>, ttl), FALSE)
    /\ InitFactory

\* A builder made by the constructor with a secret, for one request.
InitFilters ==
    /\ limits = limitsOf(MaxChainFilters, 1)
    /\ \E server \in Servers, ttl \in CacheTtls :
          InitWith(constructor(server, "k", <<>>, ttl), FALSE)
    /\ InitFactory

\* A builder whose calls are filter calls with optional arguments.
InitDirectives ==
    /\ limits = limitsOf(MaxChain, 1)
    /\ \E server \in Servers :
          InitWith(constructor(server, "k", <<>>, 0), FALSE)
    /\ InitFactory

\* A builder made by the constructor with a secret, for two requests.
InitFrames ==
    /\ limits = [chain |-> MaxChain, calls |-> MaxGetUrl,
                 changes |-> MaxChanges]
    /\ \E server \in Servers :
          InitWith(constructor(server, "k", <<>>, 0), FALSE)
    /\ InitFactory

\* A builder made by the constructor with or without defaultFilters, for
\* three requests.
InitDefaults ==
    /\ limits = limitsOf(MaxChain, MaxGetUrlDefaults)
    /\ \E server \in Servers, key \in Keys, df \in DefaultFilterLists :
          InitWith(constructor(server, key, df, 0), FALSE)
    /\ InitFactory

\* A builder made by the constructor without a secret.
InitSigning ==
    /\ limits = limitsOf(MaxChain, MaxGetUrl)
    /\ \E server \in Servers :
          InitWith(constructor(server, "", <<>>, 0), FALSE)
    /\ InitFactory

\* The factory alone, beside a builder made by the constructor that no
\* call touches.
InitClient ==
    /\ limits = limitsOf(0, 0)
    /\ \E server \in Servers :
          InitWith(constructor(server, "k", <<>>, 0), FALSE)
    /\ InitFactory

(***************************************************************************)
(* The mutators.  Each is one synchronous call on the builder.             *)
(***************************************************************************)
CanAccumulate ==
    /\ Len(calls) < limits.calls
    /\ version < limits.changes
    /\ Len(parts) + Len(added) < limits.chain

\* A positional call that empties the memo cache as well.
pushFrame_mutClearsMemo ==
    /\ clean' = FALSE
    /\ version' = version + 1
    /\ owners' = [owners EXCEPT !.parts = Append(@, Len(calls) + 1),
                                !.made = @ + 1]
    /\ memoCache' = [k \in {} |-> 0]
    /\ UNCHANGED <<config, filters, added, given, now, calls>>

\* What a positional call leaves alone (it pushes onto this.parts).
pushFrame ==
    /\ clean' = FALSE
    /\ version' = version + 1
    /\ owners' = [owners EXCEPT !.parts = Append(@, Len(calls) + 1),
                                !.made = @ + 1]
    /\ UNCHANGED <<config, filters, added, given, memoCache, now, calls>>

\* What a filter call leaves alone (it adds to this.filters).
addFrame ==
    /\ clean' = FALSE
    /\ version' = IF filters' = filters THEN version ELSE version + 1
    /\ owners' = [owners EXCEPT
                     !.added = @ \o [k \in 1..(Len(added') - Len(added)) |->
                                        Len(calls) + 1],
                     !.made = @ + Len(added') - Len(added)]
    /\ UNCHANGED <<config, parts, memoCache, now, calls>>

meta ==
    /\ CanAccumulate
    /\ parts' = Append(parts, part(orderLookup(Methods.META), Methods.META, "meta"))
    /\ pushFrame

unsafe ==
    /\ CanAccumulate
    /\ parts' = Append(parts, part(orderLookup(Methods.UNSAFE), Methods.UNSAFE,
                                   "unsafe"))
    /\ pushFrame

fitIn ==
    /\ CanAccumulate
    /\ parts' = Append(parts, part(orderLookup(Methods.FIT_IN), Methods.FIT_IN,
                                   "fitIn"))
    /\ pushFrame

fullFitIn ==
    /\ CanAccumulate
    /\ parts' = Append(parts, part(orderLookup(Methods.FULL_FIT_IN),
                                   Methods.FULL_FIT_IN, "fullFitIn"))
    /\ pushFrame

fit ==
    /\ CanAccumulate
    /\ parts' = Append(parts, part(orderLookup(Methods.FIT), Methods.FIT, "fit"))
    /\ pushFrame

full ==
    /\ CanAccumulate
    /\ parts' = Append(parts, part(orderLookup(Methods.FULL), Methods.FULL, "full"))
    /\ pushFrame

stretch ==
    /\ CanAccumulate
    /\ parts' = Append(parts, part(orderLookup(Methods.STRETCH), Methods.STRETCH,
                                   "stretch"))
    /\ pushFrame

adaptive ==
    /\ CanAccumulate
    /\ parts' = Append(parts, part(orderLookup(Methods.ADAPTIVE),
                                   Methods.ADAPTIVE, "adaptive"))
    /\ pushFrame

\* width === 'orig' ? 'orig' : width.toString()
dimStr(d) == IF d[1] = "orig" THEN "orig" ELSE ToString(d[2])

dimensions ==
    \E wh \in DimensionArgs :
        /\ CanAccumulate
        /\ parts' = Append(parts, part(orderLookup(Methods.DIMENSIONS),
                                       dimStr(wh[1]) \o "x" \o dimStr(wh[2]),
                                       "dimensions"))
        /\ pushFrame

width ==
    \E w \in Widths :
        /\ CanAccumulate
        /\ parts' = Append(parts, part(orderLookup(Methods.DIMENSIONS),
                                       dimStr(w) \o "x0", "width"))
        /\ pushFrame

height ==
    \E h \in Heights :
        /\ CanAccumulate
        /\ parts' = Append(parts, part(orderLookup(Methods.DIMENSIONS),
                                       "0x" \o dimStr(h), "height"))
        /\ pushFrame

originalSize ==
    /\ CanAccumulate
    /\ parts' = Append(parts, part(orderLookup(Methods.DIMENSIONS), "origxorig",
                                   "originalSize"))
    /\ pushFrame

proportion ==
    \E percentage \in Percentages :
        /\ CanAccumulate
        /\ parts' = Append(parts, part(orderLookup(Methods.DIMENSIONS),
                                       ToString(percentage) \o "p", "proportion"))
        /\ pushFrame

smart ==
    /\ CanAccumulate
    /\ parts' = Append(parts, part(orderLookup(Methods.SMART), Methods.SMART,
                                   "smart"))
    /\ pushFrame

\* `${leftTop.x}x${leftTop.y}`, with `:${rightBottom.x}x${rightBottom.y}`
\* when rightBottom is given
paddingValue(args) ==
    LET point(p) == ToString(p.x) \o "x" \o ToString(p.y)
    IN  IF Len(args) = 2 THEN point(args[1]) \o ":" \o point(args[2])
        ELSE point(args[1])

padding ==
    \E args \in PaddingArgs :
        /\ CanAccumulate
        /\ parts' = Append(parts, part(orderLookup(Methods.PADDING),
                                       paddingValue(args), "padding"))
        /\ pushFrame

\* src(src): the order parameter takes its default, 99
src ==
    \E s \in Sources :
        /\ CanAccumulate
        /\ parts' = Append(parts, part(DefaultOrder, s, "src"))
        /\ pushFrame

\* src(src, order): the caller gives the order
srcWithOrder ==
    \E s \in Sources, order \in SourceOrders :
        /\ CanAccumulate
        /\ parts' = Append(parts, part(order, s, "srcWithOrder"))
        /\ pushFrame

filter ==
    \E raw \in RawFilters :
        /\ CanAccumulate
        /\ filters' = setAdd(filters, raw)
        /\ added' = Append(added, raw)
        /\ given' = callOf("filter", <<raw>>, <<>>)
        /\ addFrame

format ==
    \E f \in Formats :
        /\ CanAccumulate
        /\ filters' = setAdd(filters, "format(" \o f \o ")")
        /\ added' = Append(added, "format(" \o f \o ")")
        /\ given' = callOf("format", <<f>>, <<>>)
        /\ addFrame

quality ==
    \E q \in Qualities :
        /\ CanAccumulate
        /\ filters' = setAdd(filters, "quality(" \o ToString(q) \o ")")
        /\ added' = Append(added, "quality(" \o ToString(q) \o ")")
        /\ given' = callOf("quality", <<ToString(q)>>, <<>>)
        /\ addFrame

\* src(src), the source being any string, the empty one included
srcOrEmpty ==
    \E s \in SourcesOrEmpty :
        /\ CanAccumulate
        /\ parts' = Append(parts, part(DefaultOrder, s, "src"))
        /\ pushFrame

\* src(src), the source being any text
srcText ==
    \E s \in SourceTexts :
        /\ CanAccumulate
        /\ parts' = Append(parts, part(DefaultOrder, s, "src"))
        /\ pushFrame

\* filter(filter), the filter being any text
filterText ==
    \E raw \in FilterTexts :
        /\ CanAccumulate
        /\ filters' = setAdd(filters, raw)
        /\ added' = Append(added, raw)
        /\ given' = callOf("filter", <<raw>>, <<>>)
        /\ addFrame

\* sigma ? `blur(${radius},${sigma})` : `blur(${radius})`
blurValue(radius, sigma) ==
    IF sigma[1] = "number" /\ sigma[2] # 0
    THEN "blur(" \o ToString(radius) \o "," \o ToString(sigma[2]) \o ")"
    ELSE "blur(" \o ToString(radius) \o ")"

blur ==
    \E args \in BlurArgs :
        /\ CanAccumulate
        /\ filters' = setAdd(filters, blurValue(args[1], args[2]))
        /\ added' = Append(added, blurValue(args[1], args[2]))
        /\ given' = callOf("blur", <<ToString(args[1])>>, <<args[2]>>)
        /\ addFrame

\* The text a template literal or Array.prototype.join puts for a value.
toText(v) == IF v[1] = "number" THEN ToString(v[2]) ELSE v[2]

\* JavaScript's truthiness of an optional argument.
truthy(v) ==
    \/ v[1] = "number" /\ v[2] # 0
    \/ v[1] = "string" /\ v[2] # ""

\* lines 305-311
trimValue(tolerance, basedOn) ==
    IF tolerance[1] # "undefined" /\ truthy(basedOn)
    THEN "trim(" \o toText(tolerance) \o "," \o toText(basedOn) \o ")"
    ELSE IF tolerance[1] # "undefined"
    THEN "trim(" \o toText(tolerance) \o ")"
    ELSE "trim()"

trim ==
    \E args \in TrimArgs :
        /\ CanAccumulate
        /\ filters' = setAdd(filters, trimValue(args[1], args[2]))
        /\ added' = Append(added, trimValue(args[1], args[2]))
        /\ given' = callOf("trim", <<>>, args)
        /\ addFrame

\* lines 470-474: params, then alpha and font pushed if not undefined
labelValue(text, x, y, size, color, alpha, font) ==
    LET params == <<text, x, y, size, color>>
        withAlpha == IF alpha[1] # "undefined"
                     THEN Append(params, toText(alpha)) ELSE params
        withFont == IF font[1] # "undefined"
                    THEN Append(withAlpha, toText(font)) ELSE withAlpha
    IN  "label(" \o join(withFont, ",") \o ")"

label ==
    \E args \in LabelArgs :
        /\ CanAccumulate
        /\ filters' = setAdd(filters, labelValue("Hi", "0", "0", "9", "red",
                                                 args[1], args[2]))
        /\ added' = Append(added, labelValue("Hi", "0", "0", "9", "red",
                                             args[1], args[2]))
        /\ given' = callOf("label", <<"Hi", "0", "0", "9", "red">>, args)
        /\ addFrame

\* lines 491-495
roundCornerValue(radiusX, radiusY, color) ==
    LET params == <<ToString(radiusX)>>
        withRadiusY == IF radiusY[1] # "undefined"
                       THEN Append(params, toText(radiusY)) ELSE params
        withColor == IF color[1] # "undefined"
                     THEN Append(withRadiusY, toText(color)) ELSE withRadiusY
    IN  "round_corner(" \o join(withColor, ",") \o ")"

roundCorner ==
    \E args \in RoundCornerArgs :
        /\ CanAccumulate
        /\ filters' = setAdd(filters, roundCornerValue(10, args[1], args[2]))
        /\ added' = Append(added, roundCornerValue(10, args[1], args[2]))
        /\ given' = callOf("roundCorner", <<"10">>, args)
        /\ addFrame

\* lines 540-544
watermarkValue(url, x, y, alpha, wRatio, hRatio) ==
    LET params == <<url, x, y, ToString(alpha)>>
        withWRatio == IF wRatio[1] # "undefined"
                      THEN Append(params, toText(wRatio)) ELSE params
        withHRatio == IF hRatio[1] # "undefined"
                      THEN Append(withWRatio, toText(hRatio)) ELSE withWRatio
    IN  "watermark(" \o join(withHRatio, ",") \o ")"

watermark ==
    \E args \in WatermarkArgs :
        /\ CanAccumulate
        /\ filters' = setAdd(filters, watermarkValue("w", "0", "0", 5,
                                                     args[1], args[2]))
        /\ added' = Append(added, watermarkValue("w", "0", "0", 5,
                                                 args[1], args[2]))
        /\ given' = callOf("watermark", <<"w", "0", "0", "5">>, args)
        /\ addFrame

stripMetadata ==
    /\ CanAccumulate
    /\ filters' = setAdd(setAdd(filters, "strip_exif()"), "strip_icc()")
    /\ added' = added \o <<"strip_exif()", "strip_icc()">>
    /\ given' = callOf("stripMetadata", <<>>, <<>>)
    /\ addFrame

(***************************************************************************)
(* getUrl().  The call runs synchronously up to `await urlPromise` (the    *)
(* whole of generateUrl() up to the digest is synchronous); getUrlResume   *)
(* is what follows the await.  A rejected promise makes the await throw,   *)
(* which changes no state, so a rejected call ends in getUrl itself.       *)
(***************************************************************************)
\* A memo cache that is never hit.
memoHas_mutNever(k) == FALSE

\* A memo cache that answers only for promises that are settled.
memoHas_mutOnlySettled(k) ==
    k \in DOMAIN memoCache /\ memoCache[k].status # "pending"

\* this.memoCache.has(cacheKey)
memoHas(k) == k \in DOMAIN memoCache

\* A reset that forgets this.filters.clear().
resetState_mutKeepsFilters == [parts |-> <<>>, filters |-> filters]

\* this.parts = []; this.filters.clear()
resetState == [parts |-> <<>>, filters |-> <<>>]

\* The record of one invocation: the state it was made on, whether it was
\* served from the memo cache, and the promise it returned.
callRecord(k, promise, isCached) ==
    [key |-> k, parts |-> parts, filters |-> filters, added |-> added,
     cached |-> isCached,
     status |-> promise.status, value |-> promise.value,
     at |-> now, compiledAt |-> promise.at,
     clean |-> clean, version |-> version, owners |-> owners,
     afterReset |-> \E j \in 1..Len(calls) :
                       calls[j].cached \/ calls[j].status = "fulfilled"]

getUrl ==
    /\ Len(calls) < limits.calls
    /\ LET k == cacheKey(parts, filters)
       IN  IF memoHas(k)
           THEN \* lines 620-628: served from the memo cache, state reset
                /\ calls' = Append(calls, callRecord(k, memoCache[k], TRUE))
                /\ parts' = resetState.parts
                /\ filters' = resetState.filters
                /\ added' = <<>>
                /\ owners' = [parts |-> <<>>, added |-> <<>>, made |-> 0]
                /\ given' = noCall
                /\ clean' = TRUE
                /\ version' = IF parts' = parts /\ filters' = filters
                              THEN version ELSE version + 1
                /\ UNCHANGED memoCache
           ELSE \* lines 630-634: compile, memoize, await
                LET promise == generateUrl(parts, filters, imagorServer,
                                           imagorServerKey, cacheTtl, now)
                IN  /\ memoCache' = (k :> promise) @@ memoCache
                    /\ calls' = Append(calls, callRecord(k, promise, FALSE))
                    /\ owners' = [owners EXCEPT !.made = 0]
                    /\ UNCHANGED <<parts, filters, added, given, clean,
                                   version>>
    /\ UNCHANGED <<config, now>>

\* A resumption that returns the URL without the reset of lines 637-638.
getUrlResume_mutNoReset ==
    \E i \in 1..Len(calls) :
        /\ ~calls[i].cached
        /\ calls[i].status = "pending"
        /\ memoCache' = [memoCache EXCEPT ![calls[i].key].status = "fulfilled"]
        /\ calls' = [j \in 1..Len(calls) |->
                        IF calls[j].status = "pending"
                           /\ calls[j].key = calls[i].key
                        THEN [calls[j] EXCEPT !.status = "fulfilled"]
                        ELSE calls[j]]
        /\ UNCHANGED <<config, now, parts, filters, added, given, owners,
                       clean, version>>

\* lines 634-640: the promise of generateUrl() is fulfilled, the call that
\* awaits it resets the state and returns the URL; the calls that were
\* handed the same promise from the memo cache resolve with it.
getUrlResume ==
    \E i \in 1..Len(calls) :
        /\ ~calls[i].cached
        /\ calls[i].status = "pending"
        /\ memoCache' = [memoCache EXCEPT ![calls[i].key].status = "fulfilled"]
        /\ calls' = [j \in 1..Len(calls) |->
                        IF calls[j].status = "pending"
                           /\ calls[j].key = calls[i].key
                        THEN [calls[j] EXCEPT !.status = "fulfilled"]
                        ELSE calls[j]]
        /\ parts' = resetState.parts
        /\ filters' = resetState.filters
        /\ added' = <<>>
        /\ owners' = [parts |-> <<>>, added |-> <<>>, made |-> owners.made]
        /\ given' = noCall
        /\ clean' = TRUE
        /\ version' = IF parts' = parts /\ filters' = filters
                      THEN version ELSE version + 1
        /\ UNCHANGED <<config, now>>

\* Time passes.
tick ==
    /\ now < MaxNow
    /\ now' = now + 1
    /\ UNCHANGED <<config, parts, filters, added, given, memoCache, calls,
                   clean, version, owners>>

\* The life of a builder: requests, one after another or overlapping.
Next ==
    \/ unsafe
    \/ src
    \/ format
    \/ quality
    \/ getUrl
    \/ getUrlResume
    \/ tick

Spec == Init /\ [][Next]_vars

\* The same, the signing primitive answering every call that awaits it: a
\* pending digest() is settled by the runtime in the end.
SpecFair == Spec /\ WF_vars(getUrlResume)

\* One request, built from every positional method.
NextBuild ==
    \/ meta
    \/ unsafe
    \/ fitIn
    \/ fullFitIn
    \/ fit
    \/ full
    \/ stretch
    \/ adaptive
    \/ dimensions
    \/ width
    \/ height
    \/ originalSize
    \/ proportion
    \/ smart
    \/ padding
    \/ src
    \/ srcWithOrder
    \/ filter
    \/ format
    \/ quality
    \/ getUrl
    \/ getUrlResume

SpecBuild == InitBuild /\ [][NextBuild]_vars

\* One request, built from the filter methods.
NextFilters ==
    \/ dimensions
    \/ srcOrEmpty
    \/ format
    \/ quality
    \/ blur
    \/ stripMetadata
    \/ getUrl
    \/ getUrlResume

SpecFilters == InitFilters /\ [][NextFilters]_vars

\* Requests whose filter calls take optional arguments.
NextDirectives ==
    \/ trim
    \/ blur
    \/ label
    \/ roundCorner
    \/ watermark
    \/ getUrl
    \/ getUrlResume

SpecDirectives == InitDirectives /\ [][NextDirectives]_vars

\* Every positional method and filter methods, around two requests.
NextFrames ==
    \/ meta
    \/ unsafe
    \/ fitIn
    \/ fullFitIn
    \/ fit
    \/ full
    \/ stretch
    \/ adaptive
    \/ dimensions
    \/ width
    \/ height
    \/ originalSize
    \/ proportion
    \/ smart
    \/ padding
    \/ src
    \/ srcWithOrder
    \/ filter
    \/ format
    \/ quality
    \/ getUrl
    \/ getUrlResume

SpecFrames == InitFrames /\ [][NextFrames]_vars

\* Requests on a builder given defaultFilters.
NextDefaults ==
    \/ unsafe
    \/ src
    \/ quality
    \/ getUrl
    \/ getUrlResume

SpecDefaults == InitDefaults /\ [][NextDefaults]_vars

\* Requests on a builder without a secret.
NextSigning ==
    \/ unsafe
    \/ srcText
    \/ filterText
    \/ dimensions
    \/ padding
    \/ getUrl
    \/ getUrlResume

SpecSigning == InitSigning /\ [][NextSigning]_vars

(***************************************************************************)
(* The factory of client.ts.  imagorClient() is an async function without  *)
(* an await: a call runs to its end before any other code does, and the    *)
(* promise it returns is settled with the outcome computed there.          *)
(***************************************************************************)
\* The variables of the one builder the other specifications follow.
builderVars ==
    <<imagorServer, imagorServerKey, cacheTtl, parts, filters, added,
      memoCache, now, viaClient, calls, clean, version, owners, given,
      defaults, limits>>

\* The identity of the next builder made by the factory.
nextInstance ==
    Cardinality({i \in 1..Len(clientCalls) : clientCalls[i].created}) + 1

imagorClientCall ==
    \E server \in ClientServers, key \in ClientKeys :
        /\ Len(clientCalls) < MaxClientCalls
        /\ LET ik == instanceKey(server, key)
           IN  IF ik \in DOMAIN builderInstances
               THEN \* line 34: the cached instance
                    /\ clientCalls' = Append(clientCalls,
                           clientCallRecord(server, key, "fulfilled",
                                            builderInstances[ik], FALSE))
                    /\ UNCHANGED builderInstances
               ELSE IF ~imagorClient(server, keyOrDefault(key)).ok
               THEN \* lines 18-22: the constructor throws
                    /\ clientCalls' = Append(clientCalls,
                           clientCallRecord(server, key, "rejected",
                                            MissingServerError, FALSE))
                    /\ UNCHANGED builderInstances
               ELSE \* lines 18-34: a new instance, stored and returned
                    /\ builderInstances' =
                           (ik :> nextInstance) @@ builderInstances
                    /\ clientCalls' = Append(clientCalls,
                           clientCallRecord(server, key, "fulfilled",
                                            nextInstance, TRUE))
        /\ UNCHANGED <<builderVars, epoch>>

clearImagorClientInstances ==
    /\ Len(clientCalls) < MaxClientCalls
    /\ epoch < MaxClears
    /\ builderInstances' = [k \in {} |-> 0]
    /\ epoch' = epoch + 1
    /\ UNCHANGED <<builderVars, clientCalls>>

NextClient ==
    \/ imagorClientCall
    \/ clearImagorClientInstances

SpecClient == InitClient /\ [][NextClient]_vars

(***************************************************************************)
(* The claims.  `calls` holds, for every getUrl() invocation, the state it *)
(* was made on and the promise it returned.                                *)
(***************************************************************************)
Fulfilled(c) == c.status = "fulfilled"
Rejected(c) == c.status = "rejected"

\* No accumulated segment is the unsafe marker.
NoUnsafeMarker(ps) == \A i \in 1..Len(ps) : ps[i].value # "unsafe"

\* The rank-sorted segment values of a call's state joined by '/', as
\* compiled when its URL was generated.
JoinedOf(c) == urlPath(c.parts, c.filters, cacheTtl, c.compiledAt)

\* C1: on a builder without a secret, every getUrl() made while no unsafe
\* marker is accumulated is rejected with the missing-signing-key error,
\* whatever else was accumulated.
C1_MissingKeyAlwaysFails ==
    \A i \in 1..Len(calls) :
        (imagorServerKey = "" /\ NoUnsafeMarker(calls[i].parts))
            => (Rejected(calls[i]) /\ calls[i].value = MissingKeyError)

\* C1 witness: such a call with a segment and a filter accumulated, answered
\* from the memo cache (a repeated call).
C1_Witness ==
    \E i \in 1..Len(calls) :
        /\ imagorServerKey = ""
        /\ NoUnsafeMarker(calls[i].parts)
        /\ Len(calls[i].parts) >= 1
        /\ Len(calls[i].filters) >= 1
        /\ calls[i].cached
        /\ Rejected(calls[i])

\* C2: with the unsafe marker accumulated, getUrl() returns exactly
\* <server>/<joined>, with no signature segment, with or without a secret.
C2_UnsafeUrlIsUnsigned ==
    \A i \in 1..Len(calls) :
        (Fulfilled(calls[i]) /\ ~NoUnsafeMarker(calls[i].parts))
            => calls[i].value = imagorServer \o "/" \o JoinedOf(calls[i])

\* C3: with a secret and no unsafe marker, getUrl() returns
\* <server>/<signature>/<joined>, the signature being the digest of exactly
\* <joined> under the secret.
C3_SignedUrl ==
    \A i \in 1..Len(calls) :
        (Fulfilled(calls[i]) /\ imagorServerKey # ""
           /\ NoUnsafeMarker(calls[i].parts))
            => calls[i].value =
                 imagorServer \o "/"
                   \o digest(JoinedOf(calls[i]), imagorServerKey)
                   \o "/" \o JoinedOf(calls[i])

\* C3 witness: a signed URL was returned for a request with a segment and a
\* filter.
C3_Witness ==
    \E i \in 1..Len(calls) :
        /\ Fulfilled(calls[i])
        /\ imagorServerKey # ""
        /\ NoUnsafeMarker(calls[i].parts)
        /\ Len(calls[i].parts) >= 1
        /\ Len(calls[i].filters) >= 1

\* The URL of an empty request as C4 states it.
EmptyRequestUrl ==
    imagorServer \o "/"
        \o digest("filters:format(jpeg):quality(70)", imagorServerKey)
        \o "/filters:format(jpeg):quality(70)"

\* The URL of an empty request compiled at time t: with a positive cacheTtl
\* the filters block ends with the expire directive.
EmptyRequestUrlAt(t) ==
    LET block == IF cacheTtl > 0
                 THEN "filters:format(jpeg):quality(70):expire("
                          \o ToString(t + cacheTtl) \o ")"
                 ELSE "filters:format(jpeg):quality(70)"
    IN  imagorServer \o "/" \o digest(block, imagorServerKey) \o "/" \o block

\* C4 as stated: on a builder with a secret, after getUrl()'s reset the
\* segments and filters are empty, and a getUrl() that follows with nothing
\* accumulated returns <server>/<signature>/filters:format(jpeg):quality(70).
C4_ResetThenEmptyRequest_Original ==
    imagorServerKey # "" =>
        /\ clean => (parts = <<>> /\ filters = <<>>)
        /\ \A i \in 1..Len(calls) :
               (calls[i].clean /\ Fulfilled(calls[i]))
                   => calls[i].value = EmptyRequestUrl

\* C4 (amended): the same, the URL of the empty request being
\* <server>/<signature>/filters:format(jpeg):quality(70) when cacheTtl is 0
\* and .../filters:format(jpeg):quality(70):expire(N) when cacheTtl > 0.
C4_ResetThenEmptyRequest ==
    imagorServerKey # "" =>
        /\ clean => (parts = <<>> /\ filters = <<>>)
        /\ \A i \in 1..Len(calls) :
               (calls[i].clean /\ Fulfilled(calls[i]))
                   => /\ calls[i].parts = <<>>
                      /\ calls[i].filters = <<>>
                      /\ calls[i].value = EmptyRequestUrlAt(calls[i].compiledAt)

\* C4 witness: a request with a segment and a filter was answered, and the
\* getUrl() that followed with nothing accumulated was answered too.
C4_Witness ==
    /\ imagorServerKey # ""
    /\ Len(calls) = 2
    /\ Fulfilled(calls[1])
    /\ Len(calls[1].parts) >= 1
    /\ Len(calls[1].filters) >= 1
    /\ calls[2].clean
    /\ Fulfilled(calls[2])

\* C5: on a builder handed out by imagorClient() without a key, no getUrl()
\* fails, however many requests are made through it.
C5_ClientUnsafeModeNeverFails ==
    (viaClient /\ imagorServerKey = "")
        => \A i \in 1..Len(calls) : ~Rejected(calls[i])

\* C6: two getUrl() calls on identical accumulated state, nothing having
\* changed the state in between, return identical strings.
C6_SameStateSameUrl ==
    \A i, j \in 1..Len(calls) :
        (i < j /\ calls[i].version = calls[j].version
           /\ calls[i].parts = calls[j].parts
           /\ calls[i].filters = calls[j].filters
           /\ Fulfilled(calls[i]) /\ Fulfilled(calls[j]))
            => calls[i].value = calls[j].value

\* C6 witness: two such calls, made at different times on a builder whose
\* URLs carry an expire directive.
C6_Witness ==
    \E i, j \in 1..Len(calls) :
        /\ i < j
        /\ calls[i].version = calls[j].version
        /\ Fulfilled(calls[i])
        /\ Fulfilled(calls[j])
        /\ cacheTtl > 0
        /\ calls[i].at < calls[j].at

\* A step in which getUrl() is called and fails.
FailedGetUrlStep ==
    /\ Len(calls') = Len(calls) + 1
    /\ calls'[Len(calls')].status = "rejected"

\* C7: a getUrl() that fails for the missing key leaves the accumulated
\* segments and filters as they were, a repeated call included.
C7_FailedGetUrlLeavesState ==
    [][FailedGetUrlStep => (parts' = parts /\ filters' = filters)]_vars

(***************************************************************************)
(* Claims about the compiled path (SpecBuild).  They read the URL that was *)
(* returned: the path after the server is split at '/', the signature      *)
(* segment is dropped, and the filters block is split at ':'.              *)
(***************************************************************************)
\* s.split(sep) for a one-character separator.
RECURSIVE split(_, _)
split(s, sep) ==
    IF \A i \in 1..Len(s) : SubSeq(s, i, i) # sep THEN <<s>>
    ELSE LET i == CHOOSE k \in 1..Len(s) :
                      /\ SubSeq(s, k, k) = sep
                      /\ \A j \in 1..(k - 1) : SubSeq(s, j, j) # sep
         IN  <<SubSeq(s, 1, i - 1)>> \o split(SubSeq(s, i + 1, Len(s)), sep)

has(seq, x) == \E i \in 1..Len(seq) : seq[i] = x

\* The path segments of a returned URL, the signature segment left out.
SegmentsOf(c) ==
    LET all == split(SubSeq(c.value, Len(imagorServer) + 2, Len(c.value)), "/")
    IN  IF startsWith(all[1], "hmac<") THEN Tail(all) ELSE all

IsBlock(segment) == startsWith(segment, "filters:")

\* The positions of the filters block in the path, and its directives.
BlockPositions(c) ==
    LET segments == SegmentsOf(c)
    IN  {i \in 1..Len(segments) : IsBlock(segments[i])}

DirectivesOf(c) ==
    LET segments == SegmentsOf(c)
        blocks == {i \in 1..Len(segments) : IsBlock(segments[i])}
    IN  IF blocks = {} THEN <<>>
        ELSE Tail(split(segments[CHOOSE i \in blocks : TRUE], ":"))

Accumulated(c, prefix) ==
    \E i \in 1..Len(c.filters) : startsWith(c.filters[i], prefix)

\* C8: the filters block of every URL holds format(jpeg) when no format
\* directive was accumulated, does not hold it when format(webp) and not
\* format(jpeg) was accumulated, and holds quality(70) exactly when no
\* quality directive was accumulated (or quality(70) itself was); requests
\* with meta() included.
C8_DefaultFilterInjection ==
    \A i \in 1..Len(calls) :
        Fulfilled(calls[i]) =>
            LET c == calls[i]
                dirs == DirectivesOf(c)
            IN  /\ ~Accumulated(c, "format(") => has(dirs, "format(jpeg)")
                /\ (has(c.filters, "format(webp)")
                      /\ ~has(c.filters, "format(jpeg)"))
                       => ~has(dirs, "format(jpeg)")
                /\ has(dirs, "quality(70)")
                       <=> (~Accumulated(c, "quality(")
                              \/ has(c.filters, "quality(70)"))
                /\ Accumulated(c, "quality(")
                       => \A k \in 1..Len(dirs) :
                              startsWith(dirs[k], "quality(")
                                  => has(c.filters, dirs[k])

\* C8 witness: a meta() request with format(webp) accumulated was answered;
\* its block holds the injected quality(70) and no format(jpeg).
C8_Witness ==
    \E i \in 1..Len(calls) :
        /\ Fulfilled(calls[i])
        /\ \E k \in 1..Len(calls[i].parts) : calls[i].parts[k].by = "meta"
        /\ has(calls[i].filters, "format(webp)")
        /\ has(DirectivesOf(calls[i]), "quality(70)")
        /\ ~has(DirectivesOf(calls[i]), "format(jpeg)")

\* The rank of each category as the claim lists them: unsafe, meta, fit-in,
\* full-fit-in, fit, full, stretch, adaptive, dimensions, padding, smart,
\* filters block, image source.
CategoryOf(by) ==
    CASE by = "unsafe" -> 1
      [] by = "meta" -> 2
      [] by = "fitIn" -> 3
      [] by = "fullFitIn" -> 4
      [] by = "fit" -> 5
      [] by = "full" -> 6
      [] by = "stretch" -> 7
      [] by = "adaptive" -> 8
      [] by \in {"dimensions", "width", "height", "originalSize",
                 "proportion"} -> 9
      [] by = "padding" -> 10
      [] by = "smart" -> 11
      [] by = "filters" -> 12
      [] by \in {"src", "srcWithOrder"} -> 13

\* The rank a segment is placed by: its category's place in the list; for a
\* source given an explicit order, that order on the same scale (order r
\* stands at the place of the category of index r).
PlaceOf(p) ==
    IF p.by = "srcWithOrder" THEN p.order + 1 ELSE CategoryOf(p.by)

\* The segments of a request in call order, the filters block (taken from
\* the URL) last.
ItemsOf(c) ==
    LET block == SegmentsOf(c)[CHOOSE i \in BlockPositions(c) : TRUE]
    IN  [i \in 1..Len(c.parts) |->
            [place |-> PlaceOf(c.parts[i]), value |-> c.parts[i].value]]
        \o << [place |-> CategoryOf("filters"), value |-> block] >>

\* The values of the items of place n, in call order.
AtPlace(items, n) ==
    LET sel == SelectSeq(items, LAMBDA it : it.place = n)
    IN  [i \in 1..Len(sel) |-> sel[i].value]

\* The items by ascending place, each place in call order.
RECURSIVE ByPlace(_, _)
ByPlace(items, n) ==
    IF n > 13 THEN <<>> ELSE AtPlace(items, n) \o ByPlace(items, n + 1)

\* C9: the segments of every URL stand in ascending rank, whatever the
\* order of the calls, and segments of equal rank stand in call order.
C9_SegmentsInRankOrder ==
    \A i \in 1..Len(calls) :
        Fulfilled(calls[i]) =>
            /\ Cardinality(BlockPositions(calls[i])) = 1
            /\ SegmentsOf(calls[i]) = ByPlace(ItemsOf(calls[i]), 1)

\* C9 witness: a request whose calls were made against the rank order, two
\* of them of equal rank, was answered.
C9_Witness ==
    \E i \in 1..Len(calls) :
        /\ Fulfilled(calls[i])
        /\ \E j, k \in 1..Len(calls[i].parts) :
              /\ j < k
              /\ PlaceOf(calls[i].parts[j]) > PlaceOf(calls[i].parts[k])
        /\ \E j, k \in 1..Len(calls[i].parts) :
              /\ j < k
              /\ PlaceOf(calls[i].parts[j]) = PlaceOf(calls[i].parts[k])
              /\ calls[i].parts[j].value # calls[i].parts[k].value

\* The positions of the source segments in the path.
SourcePositions(c) ==
    LET segments == SegmentsOf(c)
    IN  {i \in 1..Len(segments) : segments[i] \in Sources}

\* The ranked segments of a request made by the calls in `tags`, the
\* filters block included: [category, order].
RankedOf(c, tags) ==
    {[category |-> CategoryOf(c.parts[i].by), order |-> c.parts[i].order] :
         i \in {k \in 1..Len(c.parts) : c.parts[k].by \in tags}}
    \cup {[category |-> CategoryOf("filters"),
           order |-> orderLookup(Methods.FILTERS)]}

NoTies(ranked) ==
    \A a, b \in ranked : a.category # b.category => a.order # b.order

AllTags ==
    {"unsafe", "meta", "fitIn", "fullFitIn", "fit", "full", "stretch",
     "adaptive", "dimensions", "width", "height", "originalSize",
     "proportion", "padding", "smart", "src", "srcWithOrder"}

\* C10 as stated: in every URL every source segment stands after the
\* filters block, and no two segments of different categories have the same
\* rank, whether src was given an order or not.
C10_SourceAfterFilters_Original ==
    \A i \in 1..Len(calls) :
        Fulfilled(calls[i]) =>
            /\ \A s \in SourcePositions(calls[i]), b \in BlockPositions(calls[i]) :
                   b < s
            /\ NoTies(RankedOf(calls[i], AllTags))

\* C10 (amended): every source segment added by src without an order
\* argument stands after the filters block, and no two segments of different
\* categories have the same rank, the sources given an explicit order set
\* aside; a source given an explicit order below the rank of the filters
\* block stands before the block.
C10_SourceAfterFilters ==
    \A i \in 1..Len(calls) :
        Fulfilled(calls[i]) =>
            LET c == calls[i]
                count(tag) ==
                    Cardinality({k \in 1..Len(c.parts) : c.parts[k].by = tag})
                after ==
                    {s \in SourcePositions(c) :
                         \A b \in BlockPositions(c) : b < s}
                before ==
                    {s \in SourcePositions(c) :
                         \A b \in BlockPositions(c) : s < b}
            IN  /\ Cardinality(after) = count("src")
                /\ Cardinality(before) = count("srcWithOrder")
                /\ NoTies(RankedOf(c, AllTags \ {"srcWithOrder"}))

\* C10 witness: a request with a source added by src without an order
\* argument and a segment of another category was answered.
C10_Witness ==
    \E i \in 1..Len(calls) :
        /\ Fulfilled(calls[i])
        /\ \E j, k \in 1..Len(calls[i].parts) :
              /\ calls[i].parts[j].by = "src"
              /\ calls[i].parts[k].by \notin {"src", "srcWithOrder"}
        /\ SourcePositions(calls[i]) # {}

Returned(i) == clientCalls[i].status = "fulfilled"

SameArguments(i, j) ==
    /\ clientCalls[i].server = clientCalls[j].server
    /\ clientCalls[i].key = clientCalls[j].key

\* The call that made the builder of identity id.
MakerOf(id) ==
    CHOOSE i \in 1..Len(clientCalls) :
        clientCalls[i].created /\ clientCalls[i].value = id

CachedInstances == {builderInstances[k] : k \in DOMAIN builderInstances}

\* C12: the instance cache holds at most one builder per (imagorServer,
\* imagorServerKey) pair; two imagorClient() calls with the same pair and no
\* clear between them return the same instance, calls with different pairs
\* return different instances, and the first call for a pair after a clear
\* returns an instance no earlier call returned.
C12_OneInstancePerConfiguration ==
    /\ \A a, b \in CachedInstances :
           SameArguments(MakerOf(a), MakerOf(b)) => a = b
    /\ \A i, j \in 1..Len(clientCalls) :
           (i < j /\ Returned(i) /\ Returned(j)) =>
               /\ (SameArguments(i, j)
                     /\ clientCalls[i].epoch = clientCalls[j].epoch)
                      => clientCalls[i].value = clientCalls[j].value
               /\ ~SameArguments(i, j)
                      => clientCalls[i].value # clientCalls[j].value
    /\ \A j \in 1..Len(clientCalls) :
           (Returned(j)
              /\ \A i \in 1..(j - 1) :
                     ~(SameArguments(i, j)
                         /\ clientCalls[i].epoch = clientCalls[j].epoch))
               => /\ clientCalls[j].created
                  /\ \A i \in 1..(j - 1) :
                         Returned(i) => clientCalls[i].value # clientCalls[j].value

\* C12 witness: a pair was asked for twice and another pair once, then a
\* clear was made and the first pair was asked for again.
C12_Witness ==
    \E i, j, k, l \in 1..Len(clientCalls) :
        /\ i < j /\ j < l
        /\ Returned(i) /\ Returned(j) /\ Returned(k) /\ Returned(l)
        /\ SameArguments(i, j) /\ SameArguments(j, l)
        /\ ~SameArguments(i, k)
        /\ clientCalls[i].epoch = clientCalls[j].epoch
        /\ clientCalls[k].epoch = clientCalls[i].epoch
        /\ clientCalls[j].epoch < clientCalls[l].epoch

\* A server argument that is missing or empty.
NoServer(server) == server \in {undefined, ""}

\* A step in which imagorClient() is called without a server.
ClientCallWithoutServer ==
    /\ Len(clientCalls') = Len(clientCalls) + 1
    /\ NoServer(clientCalls'[Len(clientCalls')].server)

\* C13: the constructor makes no builder from a missing or empty server;
\* every imagorClient() call with such a server is rejected with 'Missing
\* API URL for ImagorUrlBuilder' and leaves the instance cache as it was, a
\* repeated call included.
C13_MissingServerFails ==
    [][ClientCallWithoutServer =>
          /\ \A key \in Keys, df \in DefaultFilterLists, ttl \in CacheTtls :
                 /\ ~constructor(undefined, key, df, ttl).ok
                 /\ ~constructor("", key, df, ttl).ok
          /\ clientCalls'[Len(clientCalls')].status = "rejected"
          /\ clientCalls'[Len(clientCalls')].value
                 = "Missing API URL for ImagorUrlBuilder"
          /\ ~clientCalls'[Len(clientCalls')].created
          /\ builderInstances' = builderInstances]_vars

\* C13 witness: with an instance in the cache, imagorClient() was called
\* twice with the same arguments without a server, and both calls failed.
C13_Witness ==
    \E i, j \in 1..Len(clientCalls) :
        /\ i < j
        /\ SameArguments(i, j)
        /\ NoServer(clientCalls[i].server)
        /\ clientCalls[i].status = "rejected"
        /\ clientCalls[j].status = "rejected"
        /\ builderInstances # [k \in {} |-> 0]

(***************************************************************************)
(* Claims about the expire directive (Spec).  The clock counts             *)
(* milliseconds, as Date.now() does.                                       *)
(***************************************************************************)
ExpireDirectives(c) ==
    SelectSeq(DirectivesOf(c), LAMBDA d : startsWith(d, "expire("))

\* C14: with cacheTtl = t seconds, t > 0, the filter list of a URL ends with
\* expire(N), N being the clock at compile time plus t * 1000; with
\* cacheTtl = 0 the list holds no expire directive.
C14_ExpireInMilliseconds ==
    \A i \in 1..Len(calls) :
        Fulfilled(calls[i]) =>
            LET dirs == DirectivesOf(calls[i])
            IN  IF cacheTtl > 0
                THEN /\ Len(dirs) > 0
                     /\ dirs[Len(dirs)] =
                            "expire("
                              \o ToString(calls[i].compiledAt + cacheTtl * 1000)
                              \o ")"
                ELSE ExpireDirectives(calls[i]) = <<>>

\* C15: with cacheTtl > 0, the expire directive of every URL getUrl()
\* returns is the clock at that call plus the TTL, also when the same state
\* was finalized on the builder before.
C15_ExpireFromCallTime ==
    \A i \in 1..Len(calls) :
        (Fulfilled(calls[i]) /\ cacheTtl > 0) =>
            ExpireDirectives(calls[i]) =
                << "expire(" \o ToString(calls[i].at + cacheTtl) \o ")" >>

(***************************************************************************)
(* Claims about the filter set (SpecFilters).                              *)
(***************************************************************************)
\* The elements of a sequence in the order of their first occurrence.
RECURSIVE FirstOccurrences(_)
FirstOccurrences(seq) ==
    IF seq = <<>> THEN <<>>
    ELSE LET front == FirstOccurrences(SubSeq(seq, 1, Len(seq) - 1))
         IN  IF has(front, seq[Len(seq)]) THEN front
             ELSE Append(front, seq[Len(seq)])

\* The defaults a request gets: format(jpeg), then quality(70), each when
\* no directive of that name was added.
InjectedDefaults(directives) ==
    (IF \E i \in 1..Len(directives) : startsWith(directives[i], "format(")
     THEN <<>> ELSE <<"format(jpeg)">>)
    \o (IF \E i \in 1..Len(directives) : startsWith(directives[i], "quality(")
        THEN <<>> ELSE <<"quality(70)">>)

\* The request of the example: dimensions(300, 200), format('webp'),
\* quality(80), stripMetadata() and src(u), on a builder without a TTL.
IsExampleRequest(c) ==
    /\ cacheTtl = 0
    /\ Len(c.parts) = 2
    /\ \E k \in 1..2 : c.parts[k].by = "dimensions" /\ c.parts[k].value = "300x200"
    /\ \E k \in 1..2 : c.parts[k].by = "src" /\ c.parts[k].value = "a.jpg"
    /\ c.added = <<"format(webp)", "quality(80)", "strip_exif()", "strip_icc()">>

\* C16: the filters block lists the directives the caller added in the
\* order of their first insertion, then the injected defaults in the order
\* format, quality, expire; the example request yields
\* 300x200/filters:format(webp):quality(80):strip_exif():strip_icc()/<source>.
C16_FilterOrder ==
    \A i \in 1..Len(calls) :
        Fulfilled(calls[i]) =>
            LET c == calls[i]
                dirs == DirectivesOf(c)
                base == FirstOccurrences(c.added) \o InjectedDefaults(c.added)
            IN  /\ IF cacheTtl > 0
                   THEN /\ Len(dirs) = Len(base) + 1
                        /\ SubSeq(dirs, 1, Len(base)) = base
                        /\ startsWith(dirs[Len(dirs)], "expire(")
                   ELSE dirs = base
                /\ IsExampleRequest(c)
                       => join(SegmentsOf(c), "/") =
                            "300x200/filters:format(webp):quality(80):strip_exif():strip_icc()/a.jpg"

\* C16 witness: the example request was answered.
C16_Witness ==
    \E i \in 1..Len(calls) : Fulfilled(calls[i]) /\ IsExampleRequest(calls[i])

Occurrences(seq, x) == Cardinality({k \in 1..Len(seq) : seq[k] = x})

\* C17: adding a directive whose string is already in the filter set leaves
\* the set as it was, and each added directive stands exactly once in the
\* filters block of the URL, however often it was added; blur(5) and
\* blur(10) are two directives and both stand in the block.
C17_AddIsIdempotent ==
    /\ filters = FirstOccurrences(added)
    /\ \A i \in 1..Len(calls) :
           Fulfilled(calls[i]) =>
               LET dirs == DirectivesOf(calls[i])
               IN  \A k \in 1..Len(calls[i].added) :
                       Occurrences(dirs, calls[i].added[k]) = 1

\* C17 witness: a request with blur(5) added twice and blur(10) once was
\* answered.
C17_Witness ==
    \E i \in 1..Len(calls) :
        /\ Fulfilled(calls[i])
        /\ Occurrences(calls[i].added, "blur(5)") = 2
        /\ Occurrences(calls[i].added, "blur(10)") = 1

\* C19: no segment of the path after <server>/ is the empty string; a
\* segment accumulated with the value '' is left out of the path.
C19_NoEmptySegment ==
    \A i \in 1..Len(calls) :
        Fulfilled(calls[i]) =>
            LET all == split(SubSeq(calls[i].value, Len(imagorServer) + 2,
                                    Len(calls[i].value)), "/")
            IN  /\ \A k \in 1..Len(all) : all[k] # ""
                /\ Len(SegmentsOf(calls[i])) =
                       1 + Cardinality({k \in 1..Len(calls[i].parts) :
                                            calls[i].parts[k].value # ""})

\* C19 witness: a request with src('') and another segment was answered.
C19_Witness ==
    \E i \in 1..Len(calls) :
        /\ Fulfilled(calls[i])
        /\ \E j, k \in 1..Len(calls[i].parts) :
              /\ calls[i].parts[j].value = ""
              /\ calls[i].parts[k].value # ""

(***************************************************************************)
(* Claims about determinism and memoization (Spec).                        *)
(***************************************************************************)
\* The segments of the path after <server>/, the signature segment first.
PathOf(c) ==
    split(SubSeq(c.value, Len(imagorServer) + 2, Len(c.value)), "/")

\* C18: the signature segment of every URL is the digest of the joined path
\* under the secret, and on a builder with cacheTtl 0 two requests made of
\* the same calls return the same URL, whatever was finalized on the
\* builder before each of them.
C18_UrlDependsOnRequestOnly ==
    /\ \A i \in 1..Len(calls) :
           Fulfilled(calls[i]) =>
               PathOf(calls[i])[1] =
                   digest(join(Tail(PathOf(calls[i])), "/"), imagorServerKey)
    /\ \A i, j \in 1..Len(calls) :
           (cacheTtl = 0 /\ Fulfilled(calls[i]) /\ Fulfilled(calls[j])
              /\ calls[i].parts = calls[j].parts
              /\ calls[i].added = calls[j].added)
               => calls[i].value = calls[j].value

\* The accumulated state a call was made on: the segments as the builder
\* holds them ({order, value}) and the filter set.
StateOf(c) ==
    << [k \in 1..Len(c.parts) |->
           [order |-> c.parts[k].order, value |-> c.parts[k].value]],
       c.filters >>

\* C20: on one builder the URL of an accumulated state is generated at most
\* once: a later getUrl() on the same state, also one made while the first
\* is pending, is answered with the promise of the first (same outcome,
\* same URL, compiled once), and a call is answered from the memo cache only
\* for a state that was compiled before.
C20_GeneratedOncePerState ==
    \A j \in 1..Len(calls) :
        /\ \A i \in 1..(j - 1) :
               StateOf(calls[i]) = StateOf(calls[j])
                   => /\ calls[j].cached
                      /\ calls[j].value = calls[i].value
                      /\ calls[j].status = calls[i].status
                      /\ calls[j].compiledAt = calls[i].compiledAt
        /\ calls[j].cached
               => \E i \in 1..(j - 1) :
                      ~calls[i].cached /\ StateOf(calls[i]) = StateOf(calls[j])

\* C20 witness: a second getUrl() was made on the state of a first one that
\* is still pending, a segment and a filter being accumulated.
C20_Witness ==
    /\ Len(calls) = 2
    /\ calls[1].status = "pending"
    /\ calls[2].cached
    /\ StateOf(calls[1]) = StateOf(calls[2])
    /\ Len(calls[1].parts) >= 1
    /\ Len(calls[1].filters) >= 1

(***************************************************************************)
(* Claims about overlapping requests (Spec).  Request n is made of the     *)
(* mutator calls between the (n-1)th and the nth getUrl() invocation.      *)
(***************************************************************************)
\* C21: on the builder imagorClient() shares, every URL returned holds
\* exactly the segments and filters its own request added, also when the
\* calls of a request run while the getUrl() of the request before it is
\* pending: none of another request, and none of its own discarded by the
\* other's reset.
C21_RequestsAreIsolated ==
    \A n \in 1..Len(calls) :
        (viaClient /\ Fulfilled(calls[n])) =>
            LET own == calls[n].owners
            IN  /\ \A k \in 1..Len(own.parts) : own.parts[k] \in {0, n}
                /\ \A k \in 1..Len(own.added) : own.added[k] = n
                /\ own.made =
                       Cardinality({k \in 1..Len(own.parts) : own.parts[k] = n})
                         + Len(own.added)

(***************************************************************************)
(* Claims about the end of getUrl() (SpecFair).                            *)
(***************************************************************************)
\* A step in which a getUrl() call settles by resolving.
ResolveStep ==
    \E i \in 1..Len(calls) :
        /\ i <= Len(calls')
        /\ calls[i].status = "pending"
        /\ calls'[i].status = "fulfilled"

\* A step in which getUrl() is answered with a promise of the memo cache
\* that is not rejected.
CachedAnswerStep ==
    /\ Len(calls') = Len(calls) + 1
    /\ calls'[Len(calls')].cached
    /\ calls'[Len(calls')].status # "rejected"

\* C22: every getUrl() call settles in the end, and the builder has empty
\* segments and filters again at the step in which a call resolves, and at
\* the step in which a call is handed a resolving promise of the memo cache.
C22_GetUrlSettles ==
    /\ \A i \in 1..MaxGetUrl :
           (Len(calls) >= i /\ calls[i].status = "pending")
               ~> (Len(calls) >= i /\ calls[i].status \in {"fulfilled", "rejected"})
    /\ [][(ResolveStep \/ CachedAnswerStep)
              => (parts' = <<>> /\ filters' = <<>>)]_vars

\* C22 witness: a call made on a segment and a filter, and a second call
\* answered from the memo cache while the first was pending, have both
\* resolved, and the builder is empty.
C22_Witness ==
    /\ Len(calls) = 2
    /\ Len(calls[1].parts) >= 1
    /\ Len(calls[1].filters) >= 1
    /\ calls[2].cached
    /\ Fulfilled(calls[1])
    /\ Fulfilled(calls[2])
    /\ parts = <<>>
    /\ filters = <<>>

(***************************************************************************)
(* Claims about the signing precondition (SpecSigning).                    *)
(***************************************************************************)
\* C23: without a secret, a getUrl() is not rejected only if unsafe() was
\* called in the accumulation cycle it closes; no src, dimension, padding
\* or filter call, whatever its argument, stands in for it.
C23_OnlyUnsafeUnlocks ==
    \A n \in 1..Len(calls) :
        (imagorServerKey = "" /\ Fulfilled(calls[n]))
            => \E k \in 1..Len(calls[n].parts) : calls[n].parts[k].by = "unsafe"

(***************************************************************************)
(* Claims about the dimension methods (SpecBuild).                         *)
(***************************************************************************)
DimensionMethods ==
    {"dimensions", "width", "height", "originalSize", "proportion"}

ModeFlagMethods ==
    {"unsafe", "meta", "fitIn", "fullFitIn", "fit", "full", "stretch",
     "adaptive"}

\* The values of the segments a request's calls of the given methods
\* pushed, in call order.
ValuesBy(c, methods) ==
    LET sel == SelectSeq(c.parts, LAMBDA p : p.by \in methods)
    IN  [k \in 1..Len(sel) |-> sel[k].value]

\* In a path, the dimension segments of the request stand next to each other
\* in call order, every mode flag before them and every padding after them.
DimensionsStandTogether(c, path) ==
    LET dims == ValuesBy(c, DimensionMethods)
        flags == ValuesBy(c, ModeFlagMethods)
        pads == ValuesBy(c, {"padding"})
    IN  Len(dims) > 0 =>
            \E start \in 1..Len(path) :
                /\ start + Len(dims) - 1 <= Len(path)
                /\ SubSeq(path, start, start + Len(dims) - 1) = dims
                /\ \A p \in 1..Len(path) :
                       /\ has(flags, path[p]) => p < start
                       /\ has(pads, path[p]) => p > start + Len(dims) - 1
                       /\ has(dims, path[p])
                              => (p >= start /\ p <= start + Len(dims) - 1)

OptionalMethods == {"trim", "blur", "label", "roundCorner", "watermark"}

DirectiveName(method) ==
    IF method = "roundCorner" THEN "round_corner" ELSE method

\* The optional arguments the caller provided, 0 included, in their order.
Provided(optional) ==
    SelectSeq(optional, LAMBDA v : v[1] # "undefined")

\* The directive the call is to serialize to: the required arguments, then
\* each optional argument the caller provided, and nothing for the others.
Documented(call) ==
    DirectiveName(call.method) \o "("
        \o join(call.required
                  \o [k \in 1..Len(Provided(call.optional)) |->
                         toText(Provided(call.optional)[k])], ",")
        \o ")"

\* C25: for trim, blur, label, roundCorner and watermark, the directive the
\* call adds holds each optional trailing argument if and only if the caller
\* provided it (a provided 0 counts as provided), in its documented
\* position, with no empty placeholder for an omitted one.
C25_OptionalsAsProvided ==
    given.method \in OptionalMethods =>
        /\ added # <<>>
        /\ added[Len(added)] = Documented(given)

\* C25, the calls other than blur with a provided sigma of 0: every one of
\* them serializes as the claim says.
C25_OptionalsButZeroSigma ==
    (/\ given.method \in OptionalMethods
     /\ ~(given.method = "blur" /\ given.optional[1] = <<"number", 0>>)) =>
        /\ added # <<>>
        /\ added[Len(added)] = Documented(given)

\* C25: blur(5, 0) was called and the directive it added is blur(5).
C25_ZeroSigmaDropped ==
    /\ given = callOf("blur", <<"5">>, << <<"number", 0>> >>)
    /\ added # <<>>
    /\ added[Len(added)] = "blur(5)"

(***************************************************************************)
(* C26.  What a mutator changes and what it leaves alone.                  *)
(***************************************************************************)
\* A step in which a positional method was called.
PositionalStep == Len(owners'.parts) = Len(owners.parts) + 1

\* A step in which a filter method was called.
FilterStep == Len(owners'.added) > Len(owners.added)

\* The builder after the step is the builder before it.
SameBuilder ==
    /\ imagorServer' = imagorServer
    /\ imagorServerKey' = imagorServerKey
    /\ cacheTtl' = cacheTtl

\* C26: each positional call appends exactly one segment and leaves the
\* segments there were, the filter set and the memo cache unchanged (a
\* second call of the same method appends a second segment); each filter
\* call changes only the filter set; every mutator hands back the builder
\* it was called on.
C26_MutatorFrames ==
    [][/\ PositionalStep =>
            /\ Len(parts') = Len(parts) + 1
            /\ SubSeq(parts', 1, Len(parts)) = parts
            /\ filters' = filters
            /\ memoCache' = memoCache
            /\ SameBuilder
       /\ FilterStep =>
            /\ parts' = parts
            /\ memoCache' = memoCache
            /\ SameBuilder]_vars

\* C26 witness: after a request that filled the memo cache, the same
\* positional method was called twice and there are two equal segments.
C26_Witness ==
    /\ DOMAIN memoCache # {}
    /\ Len(parts) = 2
    /\ parts[1] = parts[2]
    /\ owners.parts = <<2, 2>>

(***************************************************************************)
(* C27.  The filters block is always there.                                *)
(***************************************************************************)
\* C27: every URL getUrl returns holds exactly one filters block, and the
\* block holds a directive that starts with format( and one that starts
\* with quality(; the block is never left out, the filter list being never
\* empty when the URL is compiled.
C27_BlockAlwaysThere ==
    \A i \in 1..Len(calls) :
        Fulfilled(calls[i]) =>
            LET dirs == DirectivesOf(calls[i])
            IN  /\ Cardinality(BlockPositions(calls[i])) = 1
                /\ \E k \in 1..Len(dirs) : startsWith(dirs[k], "format(")
                /\ \E k \in 1..Len(dirs) : startsWith(dirs[k], "quality(")

\* C27 witness: a request made on a builder with no segment and an empty
\* filter set was answered, and a request with a format directive only.
C27_Witness ==
    /\ \E i \in 1..Len(calls) :
           /\ Fulfilled(calls[i])
           /\ calls[i].parts = <<>>
           /\ calls[i].filters = <<>>
    /\ \E i \in 1..Len(calls) :
           /\ Fulfilled(calls[i])
           /\ calls[i].filters = <<"format(webp)">>

(***************************************************************************)
(* C28.  The directives given to the constructor as defaultFilters.        *)
(***************************************************************************)
\* C28: the directives given as defaultFilters are in the filter set until
\* the first reset only: they stand in the URL of every request made before
\* it, the first getUrl that resolves among them, and in the URL of a
\* request made after it only if a call of that request added them again.
C28_DefaultsUntilFirstReset ==
    \A i \in 1..Len(calls) :
        Fulfilled(calls[i]) =>
            LET dirs == DirectivesOf(calls[i])
                first == \A j \in 1..(i - 1) : Rejected(calls[j])
            IN  \A k \in 1..Len(defaults) :
                    /\ ~calls[i].afterReset => has(dirs, defaults[k])
                    /\ first => has(dirs, defaults[k])
                    /\ (calls[i].afterReset /\ has(dirs, defaults[k]))
                            => has(calls[i].added, defaults[k])

\* C28 without its middle part: a URL of a request made before the first
\* reset holds the directives given as defaultFilters, and a URL of a
\* request made after it holds one of them only if a call of the request
\* added it again.
C28_DefaultsGoWithTheReset ==
    \A i \in 1..Len(calls) :
        Fulfilled(calls[i]) =>
            LET dirs == DirectivesOf(calls[i])
            IN  \A k \in 1..Len(defaults) :
                    /\ ~calls[i].afterReset => has(dirs, defaults[k])
                    /\ (calls[i].afterReset /\ has(dirs, defaults[k]))
                            => has(calls[i].added, defaults[k])

\* C28: a builder given quality(80) as defaultFilters returned its first
\* URL, and the URL does not hold quality(80).
C28_FirstUrlWithoutDefaults ==
    /\ defaults = <<"quality(80)">>
    /\ \E i \in 1..Len(calls) :
           /\ Fulfilled(calls[i])
           /\ \A j \in 1..(i - 1) : Rejected(calls[j])
           /\ calls[i].added = <<>>
           /\ ~has(DirectivesOf(calls[i]), "quality(80)")

====
